---------------------------- MODULE Spec2Model ----------------------------
(***************************************************************************)
(* Adafruit_ImageReader: drawBMP / loadBMP / coreBMP as a state machine.   *)
(*                                                                         *)
(* The model follows src/Adafruit_ImageReader.cpp in its AVR configuration *)
(* (DRAWPIXELS = 24, so sdbuf holds 72 bytes and srcidx is a uint8_t).     *)
(* Every call the code makes on the SD file (open, read, seek, close) and  *)
(* on the display (startWrite, endWrite, setAddrWindow, writePixels) is a  *)
(* step of its own, so that the order of these calls is visible in the     *)
(* reachable states.  The card holds at most one file, whose header fields *)
(* are chosen in Init; storage reads return the requested number of bytes. *)
(* Image geometry is kept small enough that no int arithmetic overflows.   *)
(***************************************************************************)
EXTENDS Integers, Sequences, FiniteSets

\* ------------------------------------------------------------------ constants
DRAWPIXELS == 24

SizeofSdbuf == 3 * DRAWPIXELS

BMPSignature == 19778        \* 0x4D42

\* ------------------------------------------------------------------- bounds
MaxSmallWidth == 3
MaxWidth == 25
MaxHeight == 3

\* Image widths and heights stored in the header (height < 0: top-down).
Widths == (-1 .. MaxSmallWidth) \cup ((DRAWPIXELS - 1) .. MaxWidth)

Heights == (0 - MaxHeight) .. MaxHeight

\* Pixel-data offsets: right behind the 34 header bytes read, or the usual 54.
Offsets == {34, 54}

\* Headers the card's file may carry.  Every geometry comes with the accepted
\* field values; the rejected (and the truncated-depth) variants come with one
\* geometry, since the code never looks at it on those paths.
GoodHeaders ==
  [sig : {BMPSignature}, offset : Offsets, width : Widths, height : Heights,
   planes : {1}, bpp : {24}, compression : {0}]

OddHeaders ==
  { h \in [sig : {BMPSignature, 0}, offset : {54}, width : {2}, height : {2},
           planes : {1, 2}, bpp : {24, 8, 280}, compression : {0, 1}] :
      ~(h.sig = BMPSignature /\ h.planes = 1 /\ h.bpp = 24 /\ h.compression = 0) }

Headers == GoodHeaders \cup OddHeaders

\* Displays handed to drawBMP, and the origins requested.
Displays == { [w |-> 30, h |-> 3], [w |-> 10, h |-> 2] }

OriginsX == {-2, 0, 3, 30}

OriginsY == {-1, 0, 1, 2}

\* ------------------------------------------------------------ pure helpers
\* Byte p of the file's pixel area (the file is long enough for every read).
FileByte(p) == (p * 37 + 11) % 256

\* The n bytes a read at position p returns.
FileBytes(p, n) == [i \in 1 .. n |-> FileByte(p + i - 1)]

\* v & ~3
AndNot3(v) == v - (v % 4)

\* (uint16_t)v
U16(v) == v % 65536

\* (uint8_t)v
U8(v) == v % 256

\* ((r & 0xF8) << 8) | ((g & 0xFC) << 3) | ((b & 0xF8) >> 3), stored as uint16_t
Color565(r, g, b) ==
  U16(((r - (r % 8)) * 256) + ((g - (g % 4)) * 8) + (b \div 8))

\* a[i] = v for a buffer kept as the sequence of its cells 0 .. Len-1 written
\* so far; cells behind it still hold what the allocation left there (0).
Store(a, i, v) ==
  IF i < Len(a)
    THEN [a EXCEPT ![i + 1] = v]
    ELSE a \o [k \in 1 .. (i - Len(a)) |-> 0] \o <<v>>

\* The first n cells of buffer a.
Cells(a, n) == SubSeq(a, 1, n)

VARIABLES
  present,                   \* the named file is on the card and opens
  hdr,                       \* header fields of the file on the card
  pc,                        \* position in drawBMP / loadBMP / coreBMP
  tft, tftW, tftH,           \* tft != NULL, tft->width(), tft->height()
  argX, argY,                \* the caller's x, y
  x, y,                      \* coreBMP's parameters x, y
  dest, destbuf,             \* dest: "NULL" | "tftbuf" | "canvasbuf"; its cells
  status, ret,               \* local status; value returned ("none" before)
  offset, bmpWidth, bmpHeight, depth, rowSize,
  sdbuf, srcidx, destidx, flip, bmpPos,
  loadWidth, loadHeight, row, col,
  canvas,                    \* local canvas pointer: "NULL" | "canvas"
  canvasAlloc, canvasW, canvasH,   \* the GFXcanvas16 made by this call
  canvas1, canvas2, palette, \* *canvas1, *canvas2, *palette ("nullptr": the
  fmt,                       \* pointer itself is NULL), and *fmt likewise
  fileOpen, pos,             \* SD file: open?, position()
  nOpen, nClose, nSeek, nRead,
  txOpen, window,            \* display: transaction open?, declared window
  nStartWrite, nEndWrite, nSetAddrWindow, nWritePixels,
  tftOut,                    \* pixels the display received, in window order
  widthPtr, heightPtr,       \* bmpDimensions: width != NULL, height != NULL
  widthOut, heightOut,       \* *width, *height: <<>> until written, then <<v>>
  dimRet                     \* the value bmpDimensions returned

callVars == <<tft, tftW, tftH, argX, argY, x, y>>
destVars == <<dest, destbuf>>
hdrVars == <<offset, bmpWidth, bmpHeight, depth, rowSize, flip>>
loopVars == <<sdbuf, srcidx, destidx, bmpPos, row, col>>
clipVars == <<loadWidth, loadHeight>>
heapVars == <<canvas, canvasAlloc, canvasW, canvasH>>
outVars == <<canvas1, canvas2, palette, fmt>>
fileVars == <<fileOpen, pos, nOpen, nClose, nSeek, nRead>>
sinkVars == <<txOpen, window, nStartWrite, nEndWrite, nSetAddrWindow,
              nWritePixels, tftOut>>
dimVars == <<widthPtr, heightPtr, widthOut, heightOut, dimRet>>

vars == <<present, hdr, pc, callVars, destVars, status, ret, hdrVars, loopVars,
          clipVars, heapVars, outVars, fileVars, sinkVars, dimVars>>

\* Everything but the card's file, as it is before a call.
Quiet ==
  /\ tft = FALSE /\ tftW = 0 /\ tftH = 0
  /\ argX = 0 /\ argY = 0 /\ x = 0 /\ y = 0
  /\ dest = "NULL" /\ destbuf = <<>>
  /\ status = "none" /\ ret = "none"
  /\ offset = 0 /\ bmpWidth = 0 /\ bmpHeight = 0 /\ depth = 0 /\ rowSize = 0
  /\ sdbuf = <<>> /\ srcidx = 0 /\ destidx = 0 /\ flip = TRUE /\ bmpPos = 0
  /\ loadWidth = 0 /\ loadHeight = 0 /\ row = 0 /\ col = 0
  /\ canvas = "NULL" /\ canvasAlloc = "none" /\ canvasW = 0 /\ canvasH = 0
  /\ canvas1 = "nullptr" /\ canvas2 = "nullptr" /\ palette = "nullptr"
  /\ fmt = "nullptr"
  /\ fileOpen = FALSE /\ pos = 0
  /\ nOpen = 0 /\ nClose = 0 /\ nSeek = 0 /\ nRead = 0
  /\ txOpen = FALSE /\ window = <<>>
  /\ nStartWrite = 0 /\ nEndWrite = 0 /\ nSetAddrWindow = 0 /\ nWritePixels = 0
  /\ tftOut = <<>>
  /\ widthPtr = FALSE /\ heightPtr = FALSE
  /\ widthOut = <<>> /\ heightOut = <<>> /\ dimRet = "none"

Init ==
  /\ present \in BOOLEAN
  /\ hdr \in Headers
  /\ pc = "idle"
  /\ Quiet

\* ------------------------------------------------- display and storage calls
\* tft->startWrite()
StartWrite ==
  /\ txOpen' = TRUE
  /\ nStartWrite' = nStartWrite + 1
  /\ UNCHANGED <<window, nEndWrite, nSetAddrWindow, nWritePixels, tftOut>>

\* tft->endWrite()
EndWrite ==
  /\ txOpen' = FALSE
  /\ nEndWrite' = nEndWrite + 1
  /\ UNCHANGED <<window, nStartWrite, nSetAddrWindow, nWritePixels, tftOut>>

\* tft->writePixels(dest, destidx)
WritePixels ==
  /\ tftOut' = tftOut \o Cells(destbuf, destidx)
  /\ nWritePixels' = nWritePixels + 1
  /\ UNCHANGED <<txOpen, window, nStartWrite, nEndWrite, nSetAddrWindow>>

\* file.read(sdbuf, sizeof sdbuf)
ReadSdbuf ==
  /\ sdbuf' = FileBytes(pos, SizeofSdbuf)
  /\ pos' = pos + SizeofSdbuf
  /\ nRead' = nRead + 1
  /\ UNCHANGED <<fileOpen, nOpen, nClose, nSeek>>

\* ------------------------------------------------------------------- calls
\* The automatic variables of coreBMP as its declarations leave them.
EnterCore ==
  /\ status' = "IMAGE_ERR_FORMAT"
  /\ srcidx' = SizeofSdbuf
  /\ destidx' = 0
  /\ flip' = TRUE
  /\ bmpPos' = 0
  /\ ret' = "none"
  /\ pc' = "entry"
  /\ UNCHANGED <<present, hdr, dimVars, offset, bmpWidth, bmpHeight, depth, rowSize, sdbuf, row,
                 col, clipVars, heapVars, fileVars, sinkVars>>

\* drawBMP(filename, tft, x, y)
DrawBMP(d, ax, ay) ==
  /\ tft' = TRUE /\ tftW' = d.w /\ tftH' = d.h
  /\ argX' = ax /\ argY' = ay /\ x' = ax /\ y' = ay
  /\ dest' = "tftbuf" /\ destbuf' = <<>>
  /\ UNCHANGED outVars
  /\ EnterCore

CallDrawBMP(d, ax, ay) == pc = "idle" /\ DrawBMP(d, ax, ay)

\* loadBMP(filename, canvas1, canvas2, palette, fmt); c1 is what *canvas1
\* holds before the call, f whether fmt is passed.
LoadBMP(c1, f) ==
  /\ tft' = FALSE /\ tftW' = 0 /\ tftH' = 0
  /\ argX' = 0 /\ argY' = 0 /\ x' = 0 /\ y' = 0
  /\ dest' = "NULL" /\ destbuf' = <<>>
  /\ canvas1' = c1 /\ canvas2' = "stale" /\ palette' = "stale" /\ fmt' = f
  /\ EnterCore

\* loadBMP called first, or right after a drawBMP of the same file.
CallLoadBMP(c1, f) == pc = "idle" /\ LoadBMP(c1, f)

ThenLoadBMP(c1, f) == pc = "done" /\ tft /\ LoadBMP(c1, f)

\* ----------------------------------------------------------------- coreBMP
\* Mutant of OffScreen: the edge itself is taken to be on the screen.
OffScreen_Strict == tft /\ ((x > tftW) \/ (y > tftH))

\* Line 194: the image lies off the right or the bottom edge of the screen.
OffScreen == tft /\ ((x >= tftW) \/ (y >= tftH))

\* Lines 188-195: clear the outputs; off the right or bottom edge: done.
Entry ==
  /\ pc = "entry"
  /\ fmt' = IF fmt # "nullptr" THEN "CANVAS_NONE" ELSE fmt
  /\ canvas2' = IF canvas2 # "nullptr" THEN "NULL" ELSE canvas2
  /\ palette' = IF palette # "nullptr" THEN "NULL" ELSE palette
  /\ IF OffScreen
       THEN /\ ret' = "IMAGE_SUCCESS"
            /\ pc' = "done"
       ELSE /\ ret' = ret
            /\ pc' = "open"
  /\ UNCHANGED <<present, hdr, dimVars, callVars, destVars, status, hdrVars, loopVars, clipVars,
                 heapVars, canvas1, fileVars, sinkVars>>

\* Line 198: file = SD.open(filename)
Open ==
  /\ pc = "open"
  /\ nOpen' = nOpen + 1
  /\ IF present
       THEN /\ fileOpen' = TRUE
            /\ pos' = 0
            /\ ret' = ret
            /\ pc' = "header"
       ELSE /\ UNCHANGED <<fileOpen, pos>>
            /\ ret' = "IMAGE_ERR_FILE_NOT_FOUND"
            /\ pc' = "done"
  /\ UNCHANGED <<present, hdr, dimVars, callVars, destVars, status, hdrVars, loopVars, clipVars,
                 heapVars, outVars, nClose, nSeek, nRead, sinkVars>>

\* Mutant of HeaderAccepted: the compression field is not looked at.
HeaderAccepted_NoCompression(h) ==
  /\ h.sig = BMPSignature
  /\ h.planes = 1
  /\ U8(h.bpp) = 24

\* Lines 201, 209-211: the four tests a header has to pass (depth is a
\* uint8_t, so the bits-per-pixel field is compared after truncation).
HeaderAccepted(h) ==
  /\ h.sig = BMPSignature
  /\ h.planes = 1
  /\ U8(h.bpp) = 24
  /\ h.compression = 0

\* Lines 201-211: the header fields, read in order until one is refused.
ParseHeader ==
  /\ pc = "header"
  /\ LET sigOK == hdr.sig = BMPSignature
         planesOK == hdr.planes = 1
         depthOK == U8(hdr.bpp) = 24
     IN  /\ offset' = IF sigOK THEN hdr.offset ELSE offset
         /\ bmpWidth' = IF sigOK THEN hdr.width ELSE bmpWidth
         /\ bmpHeight' = IF sigOK THEN hdr.height ELSE bmpHeight
         /\ depth' = IF sigOK /\ planesOK THEN U8(hdr.bpp) ELSE depth
         /\ nRead' = nRead + (IF ~sigOK THEN 1
                              ELSE IF ~planesOK THEN 8
                              ELSE IF ~depthOK THEN 9 ELSE 10)
         /\ pos' = pos + (IF ~sigOK THEN 2
                          ELSE IF ~planesOK THEN 28
                          ELSE IF ~depthOK THEN 30 ELSE 34)
         /\ pc' = IF HeaderAccepted(hdr) THEN "geom" ELSE "close"
  /\ UNCHANGED <<present, hdr, dimVars, callVars, destVars, status, ret, rowSize, flip, loopVars,
                 clipVars, heapVars, outVars, fileOpen, nOpen, nClose, nSeek,
                 sinkVars>>

\* Lines 214-224: row size, row order, the region before clipping.
Geometry ==
  /\ pc = "geom"
  /\ rowSize' = AndNot3(bmpWidth * 3 + 3)
  /\ bmpHeight' = IF bmpHeight < 0 THEN 0 - bmpHeight ELSE bmpHeight
  /\ flip' = IF bmpHeight < 0 THEN FALSE ELSE flip
  /\ loadWidth' = bmpWidth
  /\ loadHeight' = bmpHeight'
  /\ pc' = IF tft THEN "clip" ELSE "alloc"
  /\ UNCHANGED <<present, hdr, dimVars, callVars, destVars, status, ret, offset, bmpWidth, depth,
                 loopVars, heapVars, outVars, fileVars, sinkVars>>

\* Mutant of Clip: the right and bottom edges are cut to the screen's size,
\* not to what is left of it past x and y.
Clip_ToScreenSize ==
  /\ pc = "clip"
  /\ LET w1 == IF x < 0 THEN loadWidth + x ELSE loadWidth
         x1 == IF x < 0 THEN 0 ELSE x
         h1 == IF y < 0 THEN loadHeight + y ELSE loadHeight
         y1 == IF y < 0 THEN 0 ELSE y
     IN  /\ x' = x1
         /\ y' = y1
         /\ loadWidth' = IF (x1 + w1) > tftW THEN tftW ELSE w1
         /\ loadHeight' = IF (y1 + h1) > tftH THEN tftH ELSE h1
  /\ pc' = "check"
  /\ UNCHANGED <<present, hdr, dimVars, tft, tftW, tftH, argX, argY, destVars, status, ret,
                 hdrVars, loopVars, heapVars, outVars, fileVars, sinkVars>>

\* Lines 228-237: crop the region to the screen.
Clip ==
  /\ pc = "clip"
  /\ LET w1 == IF x < 0 THEN loadWidth + x ELSE loadWidth
         x1 == IF x < 0 THEN 0 ELSE x
         h1 == IF y < 0 THEN loadHeight + y ELSE loadHeight
         y1 == IF y < 0 THEN 0 ELSE y
     IN  /\ x' = x1
         /\ y' = y1
         /\ loadWidth' = IF (x1 + w1) > tftW THEN tftW - x1 ELSE w1
         /\ loadHeight' = IF (y1 + h1) > tftH THEN tftH - y1 ELSE h1
  /\ pc' = "check"
  /\ UNCHANGED <<present, hdr, dimVars, tft, tftW, tftH, argX, argY, destVars, status, ret,
                 hdrVars, loopVars, heapVars, outVars, fileVars, sinkVars>>

\* Mutant of AllocCanvas: the buffer of a canvas object is used without
\* looking whether it was allocated.
AllocCanvas_BufferUnchecked(outcome) ==
  /\ pc = "alloc"
  /\ status' = "IMAGE_ERR_MALLOC"
  /\ canvasAlloc' = outcome
  /\ canvas' = IF outcome = "null" THEN "NULL" ELSE "canvas"
  /\ canvasW' = IF outcome = "null" THEN canvasW ELSE U16(bmpWidth)
  /\ canvasH' = IF outcome = "null" THEN canvasH ELSE U16(bmpHeight)
  /\ dest' = IF outcome # "null" THEN "canvasbuf" ELSE dest
  /\ pc' = "check"
  /\ UNCHANGED <<present, hdr, dimVars, callVars, destbuf, ret, hdrVars, loopVars, clipVars,
                 outVars, fileVars, sinkVars>>

\* Lines 240-243: new GFXcanvas16(bmpWidth, bmpHeight).  The allocation
\* yields no object ("null"), an object whose pixel buffer could not be
\* allocated ("nobuf"), or an object with its buffer ("ok").
AllocCanvas(outcome) ==
  /\ pc = "alloc"
  /\ status' = "IMAGE_ERR_MALLOC"
  /\ canvasAlloc' = outcome
  /\ canvas' = IF outcome = "null" THEN "NULL" ELSE "canvas"
  /\ canvasW' = IF outcome = "null" THEN canvasW ELSE U16(bmpWidth)
  /\ canvasH' = IF outcome = "null" THEN canvasH ELSE U16(bmpHeight)
  /\ dest' = IF outcome = "ok" THEN "canvasbuf" ELSE dest
  /\ pc' = "check"
  /\ UNCHANGED <<present, hdr, dimVars, callVars, destbuf, ret, hdrVars, loopVars, clipVars,
                 outVars, fileVars, sinkVars>>

\* Mutant of RegionNonEmpty: only a zero extent counts as empty.
RegionNonEmpty_NonZero == (loadWidth # 0) /\ (loadHeight # 0)

\* Line 249: something of the image is left after clipping.
RegionNonEmpty == (loadWidth > 0) /\ (loadHeight > 0)

\* Lines 246-249 and 254-255: is there a destination, is there a region.
CheckDest ==
  /\ pc = "check"
  /\ status' = IF dest # "NULL" THEN "IMAGE_SUCCESS" ELSE status
  /\ IF dest # "NULL" /\ RegionNonEmpty
       THEN IF tft
              THEN /\ pc' = "startWrite"
                   /\ UNCHANGED <<canvas1, fmt, row>>
              ELSE /\ canvas1' = canvas
                   /\ fmt' = IF fmt # "nullptr" THEN "CANVAS_16" ELSE fmt
                   /\ row' = 0
                   /\ pc' = "row"
       ELSE /\ pc' = "close"
            /\ UNCHANGED <<canvas1, fmt, row>>
  /\ UNCHANGED <<present, hdr, dimVars, callVars, destVars, ret, hdrVars, sdbuf, srcidx, destidx,
                 bmpPos, col, clipVars, heapVars, canvas2, palette, fileVars,
                 sinkVars>>

\* Line 251: tft->startWrite()
BeginWrite ==
  /\ pc = "startWrite"
  /\ StartWrite
  /\ pc' = "setAddrWindow"
  /\ UNCHANGED <<present, hdr, dimVars, callVars, destVars, status, ret, hdrVars, loopVars,
                 clipVars, heapVars, outVars, fileVars>>

\* Line 252: tft->setAddrWindow(x, y, loadWidth, loadHeight)
SetAddrWindow ==
  /\ pc = "setAddrWindow"
  /\ window' = <<x, y, loadWidth, loadHeight>>
  /\ nSetAddrWindow' = nSetAddrWindow + 1
  /\ row' = 0
  /\ pc' = "row"
  /\ UNCHANGED <<present, hdr, dimVars, callVars, destVars, status, ret, hdrVars, sdbuf, srcidx,
                 destidx, bmpPos, col, clipVars, heapVars, outVars, fileVars,
                 txOpen, nStartWrite, nEndWrite, nWritePixels, tftOut>>

\* Position in the file of the scanline shown in destination row r (267-270).
RowPos(r) ==
  IF flip THEN offset + (bmpHeight - 1 - r) * rowSize
          ELSE offset + r * rowSize

\* Mutant of RowHead: the loop runs one scanline past the region.
RowHead_OneMore ==
  /\ pc = "row"
  /\ IF row <= loadHeight
       THEN /\ bmpPos' = RowPos(row)
            /\ IF pos # bmpPos'
                 THEN /\ pc' = IF tft THEN "seekEndWrite" ELSE "seek"
                      /\ col' = col
                 ELSE /\ pc' = "col"
                      /\ col' = 0
       ELSE /\ pc' = "close"
            /\ UNCHANGED <<bmpPos, col>>
  /\ UNCHANGED <<present, hdr, dimVars, callVars, destVars, status, ret, hdrVars, sdbuf, srcidx,
                 destidx, row, clipVars, heapVars, outVars, fileVars, sinkVars>>

\* Lines 258-271: next scanline, or the end of the loop; need a seek?
RowHead ==
  /\ pc = "row"
  /\ IF row < loadHeight
       THEN /\ bmpPos' = RowPos(row)
            /\ IF pos # bmpPos'
                 THEN /\ pc' = IF tft THEN "seekEndWrite" ELSE "seek"
                      /\ col' = col
                 ELSE /\ pc' = "col"
                      /\ col' = 0
       ELSE /\ pc' = "close"
            /\ UNCHANGED <<bmpPos, col>>
  /\ UNCHANGED <<present, hdr, dimVars, callVars, destVars, status, ret, hdrVars, sdbuf, srcidx,
                 destidx, row, clipVars, heapVars, outVars, fileVars, sinkVars>>

\* Mutant of SeekEndWrite: the seek is issued without ending the transaction.
SeekEndWrite_Omitted ==
  /\ pc = "seekEndWrite"
  /\ pc' = "seek"
  /\ UNCHANGED <<present, hdr, dimVars, callVars, destVars, status, ret, hdrVars,
                 loopVars, clipVars, heapVars, outVars, fileVars, sinkVars>>

\* Line 272: tft->endWrite() ahead of the seek
SeekEndWrite ==
  /\ pc = "seekEndWrite"
  /\ EndWrite
  /\ pc' = "seek"
  /\ UNCHANGED <<present, hdr, dimVars, callVars, destVars, status, ret, hdrVars, loopVars,
                 clipVars, heapVars, outVars, fileVars>>

\* Mutant of Seek: the transfer buffer is not invalidated.
Seek_KeepBuffer ==
  /\ pc = "seek"
  /\ pos' = bmpPos
  /\ nSeek' = nSeek + 1
  /\ col' = 0
  /\ pc' = "col"
  /\ UNCHANGED <<present, hdr, dimVars, callVars, destVars, status, ret, hdrVars, sdbuf, srcidx,
                 destidx, bmpPos, row, clipVars, heapVars, outVars, fileOpen, nOpen,
                 nClose, nRead, sinkVars>>

\* Lines 273-274: file.seek(bmpPos); force a buffer reload
Seek ==
  /\ pc = "seek"
  /\ pos' = bmpPos
  /\ nSeek' = nSeek + 1
  /\ srcidx' = SizeofSdbuf
  /\ col' = 0
  /\ pc' = "col"
  /\ UNCHANGED <<present, hdr, dimVars, callVars, destVars, status, ret, hdrVars, sdbuf, destidx,
                 bmpPos, row, clipVars, heapVars, outVars, fileOpen, nOpen,
                 nClose, nRead, sinkVars>>

\* Lines 277-279: sdbuf is used up, drawing to the screen: tft->endWrite()
RefillEndWrite ==
  /\ pc = "col" /\ col < loadWidth /\ srcidx >= SizeofSdbuf /\ tft
  /\ EndWrite
  /\ pc' = "refillRead"
  /\ UNCHANGED <<present, hdr, dimVars, callVars, destVars, status, ret, hdrVars, loopVars,
                 clipVars, heapVars, outVars, fileVars>>

\* Line 280: file.read(sdbuf, sizeof sdbuf) between the two transactions
RefillRead ==
  /\ pc = "refillRead"
  /\ ReadSdbuf
  /\ pc' = "refillStartWrite"
  /\ UNCHANGED <<present, hdr, dimVars, callVars, destVars, status, ret, hdrVars, srcidx, destidx,
                 bmpPos, row, col, clipVars, heapVars, outVars, sinkVars>>

\* Lines 281-285 and 289: tft->startWrite(); anything buffered goes out next
RefillStartWrite ==
  /\ pc = "refillStartWrite"
  /\ StartWrite
  /\ IF destidx # 0
       THEN /\ pc' = "refillFlush"
            /\ srcidx' = srcidx
       ELSE /\ pc' = "col"
            /\ srcidx' = 0
  /\ UNCHANGED <<present, hdr, dimVars, callVars, destVars, status, ret, hdrVars, sdbuf, destidx,
                 bmpPos, row, col, clipVars, heapVars, outVars, fileVars>>

\* Mutant of RefillFlush: destidx is not reset after the write.
RefillFlush_KeepIndex ==
  /\ pc = "refillFlush"
  /\ WritePixels
  /\ srcidx' = 0
  /\ pc' = "col"
  /\ UNCHANGED <<present, hdr, dimVars, callVars, destVars, status, ret, hdrVars, sdbuf,
                 destidx, bmpPos, row, col, clipVars, heapVars, outVars,
                 fileVars>>

\* Lines 283-284 and 289: tft->writePixels(dest, destidx); destidx = 0
RefillFlush ==
  /\ pc = "refillFlush"
  /\ WritePixels
  /\ destidx' = 0
  /\ srcidx' = 0
  /\ pc' = "col"
  /\ UNCHANGED <<present, hdr, dimVars, callVars, destVars, status, ret, hdrVars, sdbuf, bmpPos,
                 row, col, clipVars, heapVars, outVars, fileVars>>

\* Lines 277, 287, 289: sdbuf is used up, loading to a canvas: just read
CanvasRead ==
  /\ pc = "col" /\ col < loadWidth /\ srcidx >= SizeofSdbuf /\ ~tft
  /\ ReadSdbuf
  /\ srcidx' = 0
  /\ pc' = "col"
  /\ UNCHANGED <<present, hdr, dimVars, callVars, destVars, status, ret, hdrVars, destidx, bmpPos,
                 row, col, clipVars, heapVars, outVars, sinkVars>>

\* Lines 292-297: one pixel from sdbuf to dest, BGR to 565
Pixel ==
  /\ pc = "col" /\ col < loadWidth /\ srcidx < SizeofSdbuf
  /\ LET b == sdbuf[srcidx + 1]
         g == sdbuf[srcidx + 2]
         r == sdbuf[srcidx + 3]
     IN  destbuf' = Store(destbuf, destidx, Color565(r, g, b))
  /\ srcidx' = srcidx + 3
  /\ destidx' = destidx + 1
  /\ col' = col + 1
  /\ UNCHANGED <<present, hdr, dimVars, pc, callVars, dest, status, ret, hdrVars, sdbuf, bmpPos,
                 row, clipVars, heapVars, outVars, fileVars, sinkVars>>

\* Mutant of RowFlush: the pixels batched at the end of a scanline are
\* dropped, not written.
RowFlush_Drop ==
  /\ pc = "col" /\ col >= loadWidth /\ tft
  /\ destidx' = 0
  /\ pc' = "rowEndWrite"
  /\ UNCHANGED <<present, hdr, dimVars, callVars, destVars, status, ret, hdrVars, sdbuf, srcidx,
                 bmpPos, row, col, clipVars, heapVars, outVars, fileVars, sinkVars>>

\* Lines 299-303: end of the scanline on the screen: write what is buffered
RowFlush ==
  /\ pc = "col" /\ col >= loadWidth /\ tft
  /\ IF destidx # 0
       THEN /\ WritePixels
            /\ destidx' = 0
       ELSE UNCHANGED <<sinkVars, destidx>>
  /\ pc' = "rowEndWrite"
  /\ UNCHANGED <<present, hdr, dimVars, callVars, destVars, status, ret, hdrVars, sdbuf, srcidx,
                 bmpPos, row, col, clipVars, heapVars, outVars, fileVars>>

\* Line 304: tft->endWrite(), then on to the next scanline
RowEndWrite ==
  /\ pc = "rowEndWrite"
  /\ EndWrite
  /\ row' = row + 1
  /\ pc' = "row"
  /\ UNCHANGED <<present, hdr, dimVars, callVars, destVars, status, ret, hdrVars, sdbuf, srcidx,
                 destidx, bmpPos, col, clipVars, heapVars, outVars, fileVars>>

\* Line 306 with tft == NULL: on to the next scanline
RowNext ==
  /\ pc = "col" /\ col >= loadWidth /\ ~tft
  /\ row' = row + 1
  /\ pc' = "row"
  /\ UNCHANGED <<present, hdr, dimVars, callVars, destVars, status, ret, hdrVars, sdbuf, srcidx,
                 destidx, bmpPos, col, clipVars, heapVars, outVars, fileVars,
                 sinkVars>>

\* Mutant of Close: the function returns without closing the file.
Close_Omitted ==
  /\ pc = "close"
  /\ ret' = status
  /\ pc' = "done"
  /\ UNCHANGED <<present, hdr, dimVars, callVars, destVars, status, hdrVars, loopVars,
                 clipVars, heapVars, outVars, fileVars, sinkVars>>

\* Lines 313-314: file.close(); return status
Close ==
  /\ pc = "close"
  /\ fileOpen' = FALSE
  /\ nClose' = nClose + 1
  /\ ret' = status
  /\ pc' = "done"
  /\ UNCHANGED <<present, hdr, dimVars, callVars, destVars, status, hdrVars, loopVars, clipVars,
                 heapVars, outVars, pos, nOpen, nSeek, nRead, sinkVars>>

\* The caller has looked at the results; the recording display and card are
\* re-armed for the next call.
Reset ==
  /\ pc = "done"
  /\ pc' = "idle"
  /\ UNCHANGED <<present, hdr>>
  /\ tft' = FALSE /\ tftW' = 0 /\ tftH' = 0
  /\ argX' = 0 /\ argY' = 0 /\ x' = 0 /\ y' = 0
  /\ dest' = "NULL" /\ destbuf' = <<>>
  /\ status' = "none" /\ ret' = "none"
  /\ offset' = 0 /\ bmpWidth' = 0 /\ bmpHeight' = 0 /\ depth' = 0 /\ rowSize' = 0
  /\ sdbuf' = <<>> /\ srcidx' = 0 /\ destidx' = 0 /\ flip' = TRUE /\ bmpPos' = 0
  /\ loadWidth' = 0 /\ loadHeight' = 0 /\ row' = 0 /\ col' = 0
  /\ canvas' = "NULL" /\ canvasAlloc' = "none" /\ canvasW' = 0 /\ canvasH' = 0
  /\ canvas1' = "nullptr" /\ canvas2' = "nullptr" /\ palette' = "nullptr"
  /\ fmt' = "nullptr"
  /\ fileOpen' = FALSE /\ pos' = 0
  /\ nOpen' = 0 /\ nClose' = 0 /\ nSeek' = 0 /\ nRead' = 0
  /\ txOpen' = FALSE /\ window' = <<>>
  /\ nStartWrite' = 0 /\ nEndWrite' = 0 /\ nSetAddrWindow' = 0 /\ nWritePixels' = 0
  /\ tftOut' = <<>>
  /\ widthPtr' = FALSE /\ heightPtr' = FALSE
  /\ widthOut' = <<>> /\ heightOut' = <<>> /\ dimRet' = "none"

Core ==
  \/ Entry
  \/ Open
  \/ ParseHeader
  \/ Geometry
  \/ Clip
  \/ \E outcome \in {"null", "nobuf", "ok"} : AllocCanvas(outcome)
  \/ CheckDest
  \/ BeginWrite
  \/ SetAddrWindow
  \/ RowHead
  \/ SeekEndWrite
  \/ Seek
  \/ RefillEndWrite
  \/ RefillRead
  \/ RefillStartWrite
  \/ RefillFlush
  \/ CanvasRead
  \/ Pixel
  \/ RowFlush
  \/ RowEndWrite
  \/ RowNext
  \/ Close

Next ==
  \/ \E d \in Displays, ax \in OriginsX, ay \in OriginsY : CallDrawBMP(d, ax, ay)
  \/ \E c1 \in {"NULL", "stale"}, f \in {"nullptr", "stale"} : CallLoadBMP(c1, f)
  \/ Core
  \/ Reset

Spec == Init /\ [][Next]_vars

\* coreBMP is straight-line code and loops over counters: once called, its
\* next statement is executed, every storage and display call returning.
SpecLive == Init /\ [][Next]_vars /\ WF_vars(Core)

\* drawBMP at the origin of a display that holds the whole image, then loadBMP
\* of the same file: the display keeps what it received while the canvas is
\* filled, so the two results can be compared.
DrawAtOrigin ==
  \E d \in Displays :
    /\ d.w >= hdr.width
    /\ d.h >= hdr.height /\ d.h >= 0 - hdr.height
    /\ CallDrawBMP(d, 0, 0)

NextEq ==
  \/ DrawAtOrigin
  \/ \E c1 \in {"NULL", "stale"}, f \in {"nullptr", "stale"} : ThenLoadBMP(c1, f)
  \/ Core

SpecEq == Init /\ [][NextEq]_vars


\* ----------------------------------------------------------- bmpDimensions
\* The 32-bit header field readLE32() returns at file position p.
HeaderLE32(p) ==
  CASE p = 10 -> hdr.offset
    [] p = 18 -> hdr.width
    [] p = 22 -> hdr.height
    [] OTHER  -> 0

\* bmpDimensions(filename, width, height); wp, hp tell whether the pointers
\* width and height are passed.
CallBmpDimensions(wp, hp) ==
  /\ pc = "idle"
  /\ status' = "IMAGE_ERR_FILE_NOT_FOUND"
  /\ widthPtr' = wp /\ heightPtr' = hp
  /\ widthOut' = <<>> /\ heightOut' = <<>>
  /\ dimRet' = "none"
  /\ pc' = "dimOpen"
  /\ UNCHANGED <<present, hdr, callVars, destVars, ret, hdrVars, loopVars, clipVars,
                 heapVars, outVars, fileVars, sinkVars>>

\* if((file = SD.open(filename))) status = IMAGE_ERR_FORMAT
DimOpen ==
  /\ pc = "dimOpen"
  /\ nOpen' = nOpen + 1
  /\ IF present
       THEN /\ fileOpen' = TRUE
            /\ pos' = 0
            /\ status' = "IMAGE_ERR_FORMAT"
            /\ pc' = "dimHeader"
       ELSE /\ UNCHANGED <<fileOpen, pos, status>>
            /\ pc' = "dimClose"
  /\ UNCHANGED <<present, hdr, callVars, destVars, ret, hdrVars, loopVars, clipVars,
                 heapVars, outVars, nClose, nSeek, nRead, sinkVars, dimVars>>

\* The signature test and, behind it, the four skipped fields and the reads
\* of width and height, each made only when its pointer is passed.
DimHeader ==
  /\ pc = "dimHeader"
  /\ IF hdr.sig = BMPSignature
       THEN LET posW == 18
                posH == IF widthPtr THEN posW + 4 ELSE posW
                h == HeaderLE32(posH)
            IN  /\ widthOut' = IF widthPtr THEN <<HeaderLE32(posW)>> ELSE widthOut
                /\ heightOut' = IF heightPtr THEN <<IF h < 0 THEN 0 - h ELSE h>>
                                             ELSE heightOut
                /\ pos' = IF heightPtr THEN posH + 4 ELSE posH
                /\ nRead' = nRead + 5 + (IF widthPtr THEN 1 ELSE 0)
                                      + (IF heightPtr THEN 1 ELSE 0)
                /\ status' = "IMAGE_SUCCESS"
       ELSE /\ pos' = 2
            /\ nRead' = nRead + 1
            /\ UNCHANGED <<widthOut, heightOut, status>>
  /\ pc' = "dimClose"
  /\ UNCHANGED <<present, hdr, callVars, destVars, ret, hdrVars, loopVars, clipVars,
                 heapVars, outVars, fileOpen, nOpen, nClose, nSeek, sinkVars, widthPtr,
                 heightPtr, dimRet>>

\* file.close(); return status;
DimClose ==
  /\ pc = "dimClose"
  /\ fileOpen' = FALSE
  /\ nClose' = nClose + 1
  /\ dimRet' = status
  /\ pc' = "dimDone"
  /\ UNCHANGED <<present, hdr, callVars, destVars, status, ret, hdrVars, loopVars,
                 clipVars, heapVars, outVars, pos, nOpen, nSeek, nRead, sinkVars,
                 widthPtr, heightPtr, widthOut, heightOut>>

BmpDimensions ==
  \/ DimOpen
  \/ DimHeader
  \/ DimClose

\* A decode of the same file right after the query, on a display whose
\* origin is on the screen or into memory.
DimThenDrawBMP(d) == pc = "dimDone" /\ DrawBMP(d, 0, 0)

DimThenLoadBMP(c1, f) == pc = "dimDone" /\ LoadBMP(c1, f)

NextDim ==
  \/ \E wp \in BOOLEAN, hp \in BOOLEAN : CallBmpDimensions(wp, hp)
  \/ BmpDimensions
  \/ \E d \in Displays : DimThenDrawBMP(d)
  \/ \E c1 \in {"NULL", "stale"}, f \in {"nullptr", "stale"} : DimThenLoadBMP(c1, f)
  \/ Core

SpecDim == Init /\ [][NextDim]_vars

\* ================================================================== claims
\* What the file says about the image, in the words of the specification.
ImageWidth == hdr.width

ImageHeight == IF hdr.height < 0 THEN 0 - hdr.height ELSE hdr.height

TopDown == hdr.height < 0

PixelDataOffset == hdr.offset

RowStrideBytes == AndNot3(hdr.width * 3 + 3)

\* A header fails a check: signature, plane count, bit depth (a u8 in the
\* data model) or compression is not what an uncompressed 24-bit BMP has.
FailsCheck(h) ==
  \/ h.sig # BMPSignature
  \/ h.planes # 1
  \/ U8(h.bpp) # 24
  \/ h.compression # 0

\* The 565 value of the pixel stored in file row fr (counted in storage
\* order), column c.
StoredPixel(fr, c) ==
  LET q == PixelDataOffset + fr * RowStrideBytes + 3 * c
  IN  Color565(FileByte(q + 2), FileByte(q + 1), FileByte(q))

\* The file row holding image row ir (counted from the top of the picture).
FileRowOf(ir) == IF TopDown THEN ir ELSE ImageHeight - 1 - ir

\* The pixels delivered so far, in destination order.
Delivered == IF tft THEN tftOut ELSE destbuf

\* The call went past the header and the region was computed.
Decoding ==
  /\ ~FailsCheck(hdr)
  /\ pc \in {"check", "startWrite", "setAddrWindow", "row", "seekEndWrite",
             "seek", "col", "refillRead", "refillStartWrite", "refillFlush",
             "rowEndWrite", "close"}

Returned == pc = "done"

\* ---------------------------------------------------------------------- C1
\* C1: in a display decode no storage seek and no storage read is issued
\* while a display write transaction is open: every step that seeks or reads
\* starts, and ends, with the transaction closed.
C1_NoStorageInTransaction ==
  [][ (tft /\ (nSeek' > nSeek \/ nRead' > nRead)) => (~txOpen /\ ~txOpen') ]_vars

\* C1 witness: a display decode that sought and refilled more than once
\* between transactions has returned.
C1_Witness ==
  /\ Returned /\ tft
  /\ nSeek >= 2 /\ nRead >= 12 /\ nStartWrite >= 3 /\ nWritePixels >= 2

\* ---------------------------------------------------------------------- C2
\* C2: with a non-negative origin, the pixel delivered for destination row r,
\* column c of the load region is the 565 value of the three bytes stored at
\* pixelDataOffset + sourceRow * rowStrideBytes + 3 * c, sourceRow being
\* imageHeight - 1 - r for bottom-up and r for top-down files.
C2_PixelsFromOwnRow ==
  (Decoding /\ argX >= 0 /\ argY >= 0) =>
     \A i \in 1 .. Len(Delivered) :
        Delivered[i] = StoredPixel(FileRowOf((i - 1) \div loadWidth),
                                   (i - 1) % loadWidth)

\* ---------------------------------------------------------------------- C3
\* C3: with originX = -kx (0 < kx < width) and/or originY = -ky
\* (0 < ky < height), loadWidth is width - kx before right-edge clipping
\* (loadHeight likewise), and destination row r, column c shows image row
\* r + ky, column c + kx: the leading kx columns and ky rows are skipped.
Min(a, b) == IF a < b THEN a ELSE b

CropX == IF argX < 0 THEN 0 - argX ELSE 0

CropY == IF argY < 0 THEN 0 - argY ELSE 0

C3_NegativeOriginSkipsLeading ==
  (Decoding /\ tft /\ (argX < 0 \/ argY < 0)
     /\ CropX < ImageWidth /\ CropY < ImageHeight) =>
     /\ loadWidth = Min(ImageWidth - CropX, tftW - (argX + CropX))
     /\ loadHeight = Min(ImageHeight - CropY, tftH - (argY + CropY))
     /\ \A i \in 1 .. Len(Delivered) :
          Delivered[i] = StoredPixel(FileRowOf(((i - 1) \div loadWidth) + CropY),
                                     ((i - 1) % loadWidth) + CropX)

\* ---------------------------------------------------------------------- C4
\* No pixel has reached a destination and the display was not touched.
NothingWritten ==
  /\ nWritePixels = 0 /\ nStartWrite = 0 /\ nSetAddrWindow = 0
  /\ tftOut = <<>> /\ window = <<>> /\ ~txOpen
  /\ destbuf = <<>> /\ canvasAlloc = "none"

\* The requested origin is off the right or bottom edge of the display.
OffScreenCall == tft /\ (argX >= tftW \/ argY >= tftH)

C5_ClosedExactlyOnce == Returned => (~fileOpen /\ nClose = 1)

\* C5 amended: after any call the stream is closed; a call that opened the
\* stream has closed it exactly once, a call that did not open one
\* (off-screen short-circuit, FileNotFound) has issued no close; close is
\* never issued twice, nor on a stream that is not open.
C5_ClosedOnceIfOpened ==
  /\ nClose <= 1
  /\ nClose = 1 => (~fileOpen /\ nOpen = 1 /\ present)
  /\ Returned =>
       /\ ~fileOpen
       /\ nClose = IF nOpen = 1 /\ present THEN 1 ELSE 0

\* C5 witness: a memory decode whose allocation failed has returned
\* OutOfMemory after opening the stream once and closing it once.
C5_Witness ==
  /\ Returned /\ nClose = 1 /\ nOpen = 1 /\ ~fileOpen
  /\ ret = "IMAGE_ERR_MALLOC"

\* ---------------------------------------------------------------------- C6
\* C6: a display decode whose origin is at or beyond the display's width or
\* height returns success; the display receives no startWrite,
\* setAddrWindow, writePixels or endWrite, and the card no open, read, seek
\* or close.
C6_OffScreenDoesNothing ==
  (pc # "idle" /\ OffScreenCall) =>
     /\ nStartWrite = 0 /\ nSetAddrWindow = 0 /\ nWritePixels = 0
     /\ nEndWrite = 0
     /\ nOpen = 0 /\ nRead = 0 /\ nSeek = 0 /\ nClose = 0 /\ ~fileOpen
     /\ pc \in {"entry", "done"}
     /\ Returned => ret = "IMAGE_SUCCESS"

\* C6 witness: a call with originX exactly the display width, on a file that
\* would decode, has returned.
C6_Witness ==
  /\ Returned /\ tft /\ argX = tftW /\ argY = 0
  /\ present /\ ~FailsCheck(hdr) /\ ImageWidth > 0 /\ ImageHeight > 0
  /\ ret = "IMAGE_SUCCESS"

\* ---------------------------------------------------------------------- C7
\* C7: when loadBMP returns success (zero-width and zero-height images
\* included) *canvas1 is the canvas allocated by the call, with the image's
\* width and |height|, *fmt is the 16-bit canvas tag, and no canvas made by
\* the call is left unreturned.
C7_SuccessReturnsCanvas ==
  (Returned /\ ~tft /\ ret = "IMAGE_SUCCESS") =>
     /\ canvasAlloc = "ok"
     /\ canvas1 = "canvas"
     /\ fmt # "nullptr" => fmt = "CANVAS_16"
     /\ canvasW = ImageWidth /\ canvasH = ImageHeight

\* ---------------------------------------------------------------------- C8
\* C8: when loadBMP returns a non-success code, whatever *canvas1 held
\* before, *fmt is CANVAS_NONE and *canvas1 is NULL afterwards.
C8_ErrorClearsOutputs ==
  (Returned /\ ~tft /\ ret # "IMAGE_SUCCESS") =>
     /\ fmt # "nullptr" => fmt = "CANVAS_NONE"
     /\ canvas1 = "NULL"

\* ---------------------------------------------------------------------- C9
\* The canvas buffer's cells 0 .. n-1 (cells never stored to are still 0).
CanvasCells(n) ==
  [i \in 1 .. n |-> IF i <= Len(destbuf) THEN destbuf[i] ELSE 0]

ImageArea == IF ImageWidth > 0 THEN ImageWidth * ImageHeight ELSE 0

\* C9 (under SpecEq: drawBMP at origin (0,0) on a display at least as large
\* as the image, then loadBMP of the same file): when the memory decode has
\* returned success, the pixels the display received, in window order, are
\* exactly the canvas cells 0 .. width*height-1.
C9_DisplayEqualsMemory ==
  (Returned /\ ~tft /\ ret = "IMAGE_SUCCESS") => tftOut = CanvasCells(ImageArea)

\* C9 witness: both decodes of an image wider than the transfer buffer, with
\* several rows, have completed.
C9_Witness ==
  /\ Returned /\ ~tft /\ ret = "IMAGE_SUCCESS"
  /\ ImageWidth > DRAWPIXELS /\ ImageHeight >= 2
  /\ Len(tftOut) = ImageArea /\ Len(destbuf) = ImageArea

\* --------------------------------------------------------------------- C10
\* C10 as stated: the load region computed by the decoder has
\* loadWidth >= 0 and loadHeight >= 0.
C10_RegionNonNegative == Decoding => (loadWidth >= 0 /\ loadHeight >= 0)

\* No pixel data was fetched, converted or delivered.
NoPixelTransferred ==
  /\ nSeek = 0 /\ nRead = 10 /\ nWritePixels = 0 /\ nStartWrite = 0
  /\ nSetAddrWindow = 0 /\ tftOut = <<>> /\ destbuf = <<>>

\* C10 amended: loadWidth and loadHeight never exceed the image's width and
\* height but may be negative (an origin more negative than the image is
\* wide or tall); whenever loadWidth <= 0 or loadHeight <= 0 no pixel is
\* transferred, and the call returns success (a memory decode: provided its
\* allocation succeeded, OutOfMemory otherwise).
C10_EmptyRegionIsNoOp ==
  Decoding =>
     /\ loadWidth <= ImageWidth /\ loadHeight <= ImageHeight
     /\ (loadWidth <= 0 \/ loadHeight <= 0) =>
          /\ NoPixelTransferred
          /\ pc \in {"check", "close"}
          /\ pc = "close" =>
               status = IF tft \/ canvasAlloc = "ok"
                          THEN "IMAGE_SUCCESS" ELSE "IMAGE_ERR_MALLOC"

\* C10 witness: a display decode whose origin is further left than the image
\* is wide has reached the end with a negative loadWidth.
C10_Witness ==
  /\ Returned /\ tft /\ present /\ ~FailsCheck(hdr) /\ ~OffScreenCall
  /\ ImageWidth >= 0 /\ ImageHeight > 0
  /\ loadWidth < 0 /\ ret = "IMAGE_SUCCESS"

\* --------------------------------------------------------------------- C11
\* The header's fields are not those of an uncompressed 24-bit BMP.
FieldsFail(h) ==
  \/ h.sig # BMPSignature
  \/ h.planes # 1
  \/ h.bpp # 24
  \/ h.compression # 0

\* C11: a decode that opened the file returns UnsupportedFormat exactly when
\* the header fails one of the four checks; a header with signature 'BM',
\* plane count 1, bit depth 24 and compression 0 is accepted (success, or
\* OutOfMemory for a memory target) and its rows are addressed with
\* rowStrideBytes = (width*3+3) & ~3.
C11_UnsupportedIffHeaderFails ==
  (Returned /\ present /\ nOpen = 1) =>
     /\ (ret = "IMAGE_ERR_FORMAT") <=> FieldsFail(hdr)
     /\ ~FieldsFail(hdr) =>
          /\ ret \in (IF tft THEN {"IMAGE_SUCCESS"}
                             ELSE {"IMAGE_SUCCESS", "IMAGE_ERR_MALLOC"})
          /\ rowSize = RowStrideBytes

\* --------------------------------------------------------------------- C12
QueryReturned == pc = "dimDone"

\* FileNotFound when the stream cannot be opened; otherwise UnsupportedFormat
\* or success, and success carries the stored width and |height|.
QueryResult ==
  QueryReturned =>
     /\ ~present => dimRet = "IMAGE_ERR_FILE_NOT_FOUND"
     /\ present => dimRet \in {"IMAGE_ERR_FORMAT", "IMAGE_SUCCESS"}
     /\ dimRet = "IMAGE_SUCCESS" =>
          /\ widthPtr => widthOut = <<ImageWidth>>
          /\ heightPtr => heightOut = <<ImageHeight>>

\* A decode of the same file fails the way the query failed, and only then.
QuerySameAsDecode ==
  (Returned /\ dimRet # "none") =>
     /\ (dimRet = "IMAGE_ERR_FILE_NOT_FOUND") <=> (ret = "IMAGE_ERR_FILE_NOT_FOUND")
     /\ (dimRet = "IMAGE_ERR_FORMAT") <=> (ret = "IMAGE_ERR_FORMAT")

\* The stream the query opened is closed once; no close without an open.
QueryClosesItsStream ==
  QueryReturned => (~fileOpen /\ nClose = (IF present THEN 1 ELSE 0))

\* C12: bmpDimensions returns FileNotFound when the stream cannot be opened,
\* UnsupportedFormat when it opens but is rejected, otherwise success with the
\* stored width and |height|; its outcome is the same as decode's for the same
\* file; it closes the stream it opened exactly once and issues no close on a
\* stream that was never opened.
C12_QueryContract == QueryResult /\ QuerySameAsDecode /\ QueryClosesItsStream

\* --------------------------------------------------------------------- C13
\* C13: in a display decode every writePixels call is made while a display
\* write transaction is open and after the window was declared with
\* setAddrWindow, in every row, also one that begins without a seek and
\* without a buffer refill.
C13_WritePixelsInsideTransaction ==
  [][ (nWritePixels' > nWritePixels) =>
        (txOpen /\ nSetAddrWindow >= 1 /\ window # <<>>) ]_vars

\* --------------------------------------------------------------------- C14
\* C14: in a display decode startWrite and endWrite strictly alternate,
\* beginning with startWrite: startWrite is called only with no transaction
\* open, endWrite only with one open (before a seek, before a buffer refill
\* and at the end of a row alike), and none is open when the call returns.
C14_TransactionsWellBracketed ==
  [][ /\ (nStartWrite' > nStartWrite) => ~txOpen
      /\ (nEndWrite' > nEndWrite) => txOpen
      /\ (tft' /\ pc' = "done") => ~txOpen' ]_vars

\* --------------------------------------------------------------------- C15
\* Byte position of the scanline the loop's row r takes its pixels from.
ScanlinePos(r) == PixelDataOffset + FileRowOf(r) * RowStrideBytes

\* C15: at the start of each scanline a seek is issued if and only if the
\* stream position differs from the row's byte position pixelDataOffset +
\* sourceRow*rowStrideBytes, one seek per such row and none otherwise; every
\* seek leaves the stream at that position with the transfer buffer
\* invalidated, and the first pixel of a row that starts on a fresh buffer is
\* taken from a read that began at the row's position.
C15_SeekIffMispositioned ==
  [][ /\ (Decoding /\ pc = "row" /\ row < loadHeight) =>
           /\ (pc' = "col") <=> (pos = ScanlinePos(row))
           /\ (pc' \in {"seekEndWrite", "seek"}) <=> (pos # ScanlinePos(row))
      /\ (nSeek' > nSeek) =>
           /\ pc = "seek" /\ pc' = "col" /\ col' = 0
           /\ nSeek' = nSeek + 1
           /\ pos # ScanlinePos(row) /\ pos' = ScanlinePos(row)
           /\ srcidx' >= SizeofSdbuf
      /\ (pc' \in {"seekEndWrite", "seek"}) => (pc \in {"row", "seekEndWrite"})
      /\ (Decoding /\ pc = "col" /\ col = 0 /\ srcidx = 0) =>
           /\ sdbuf = FileBytes(ScanlinePos(row), SizeofSdbuf)
           /\ pos = ScanlinePos(row) + SizeofSdbuf
      /\ (Decoding /\ pc \in {"row", "close"}) => nSeek <= row ]_vars

\* A decode of three rows that had to seek for the first row only.
C15_Witness ==
  /\ Returned /\ ret = "IMAGE_SUCCESS"
  /\ loadHeight = 3 /\ row = 3
  /\ nSeek = 1

\* --------------------------------------------------------------------- C16
\* The next step fetches a pixel from sdbuf and stores it through dest.
AtStore == Decoding /\ pc = "col" /\ col < loadWidth /\ srcidx < SizeofSdbuf

\* The next step hands the batched pixels to writePixels.
AtFlush ==
  /\ Decoding /\ tft
  /\ \/ pc = "refillFlush"
     \/ pc = "col" /\ col >= loadWidth /\ destidx # 0

\* C16: at every step of a decode, for every image width, the source index
\* used to fetch a pixel is a multiple of 3 with srcidx + 2 < 3*DRAWPIXELS;
\* in a display decode destidx < DRAWPIXELS at every store and destidx <=
\* DRAWPIXELS at every flush; in a memory decode destidx < width*height at
\* every store. Neither fixed buffer is indexed out of range.
C16_BuffersInRange ==
  /\ Decoding => (srcidx % 3 = 0 /\ 0 <= srcidx /\ srcidx <= SizeofSdbuf)
  /\ AtStore =>
       /\ srcidx + 2 < 3 * DRAWPIXELS
       /\ Len(sdbuf) = 3 * DRAWPIXELS
       /\ tft => destidx < DRAWPIXELS
       /\ ~tft => destidx < ImageWidth * ImageHeight
  /\ AtFlush => (0 < destidx /\ destidx <= DRAWPIXELS)
  /\ (Decoding /\ tft) => Len(destbuf) <= DRAWPIXELS
  /\ (Decoding /\ ~tft /\ destbuf # <<>>) => Len(destbuf) <= ImageWidth * ImageHeight

\* A full batch of DRAWPIXELS pixels is about to be flushed at a refill.
C16_Witness == AtFlush /\ pc = "refillFlush" /\ destidx = DRAWPIXELS

\* --------------------------------------------------------------------- C17
Max(a, b) == IF a > b THEN a ELSE b

\* The image rectangle [originX, originX+width) x [originY, originY+height)
\* cut to the device rectangle, as <<x, y, w, h>>.
Intersection ==
  LET left == Max(argX, 0)
      top == Max(argY, 0)
      right == Min(argX + ImageWidth, tftW)
      bottom == Min(argY + ImageHeight, tftH)
  IN  <<left, top, right - left, bottom - top>>

\* The display decode is in its pixel loop or has been through it.
ReachedPixelLoop ==
  /\ ~FailsCheck(hdr) /\ tft
  /\ \/ pc \in {"row", "seekEndWrite", "seek", "col", "refillRead",
                "refillStartWrite", "refillFlush", "rowEndWrite"}
     \/ nWritePixels > 0

\* C17: in a display decode that reaches the pixel loop the window declared
\* with setAddrWindow is the intersection of the image rectangle with the
\* device rectangle, with x >= 0, y >= 0, w > 0, h > 0, x + w <= deviceWidth
\* and y + h <= deviceHeight, and it is declared exactly once per call.
C17_WindowIsIntersection ==
  /\ nSetAddrWindow <= 1
  /\ ReachedPixelLoop => nSetAddrWindow = 1
  /\ nSetAddrWindow = 1 =>
       /\ window = Intersection
       /\ window[1] >= 0 /\ window[2] >= 0
       /\ window[3] > 0 /\ window[4] > 0
       /\ window[1] + window[3] <= tftW
       /\ window[2] + window[4] <= tftH

\* A window cut on the left and on the right, and at the top.
C17_Witness ==
  /\ ReachedPixelLoop /\ Returned
  /\ argX < 0 /\ argY < 0
  /\ window[1] = 0 /\ window[3] = tftW /\ window[4] < ImageHeight

\* --------------------------------------------------------------------- C18
\* The pixels converted so far in a display decode: those already passed to
\* writePixels, then those batched in dest.
Stream == tftOut \o Cells(destbuf, destidx)

\* The step converts one pixel (lines 292-297).
PixelStep == pc = "col" /\ pc' = "col" /\ col' = col + 1

\* The pixel that step converts.
Converted == Color565(sdbuf[srcidx + 3], sdbuf[srcidx + 2], sdbuf[srcidx + 1])

\* The display decode returned success after computing its region.
DrewRegion ==
  Returned /\ tft /\ ret = "IMAGE_SUCCESS" /\ nOpen = 1 /\ ~FailsCheck(hdr)

RegionArea ==
  IF loadWidth > 0 /\ loadHeight > 0 THEN loadWidth * loadHeight ELSE 0

\* C18 as stated: a successful display decode has passed loadWidth *
\* loadHeight pixels to writePixels in all and leaves none batched.
C18_CountIsRegionProduct ==
  DrewRegion => (Len(tftOut) = loadWidth * loadHeight /\ destidx = 0)

\* C18, amended: every converted pixel joins the stream of flushed-then-batched
\* pixels once, at its row-major place, and no other step changes that
\* stream; writePixels is passed the batched count; at a successful return
\* nothing is batched and the display has received loadWidth * loadHeight
\* pixels when both are positive, none otherwise.
C18_RegionCompleted ==
  [][ /\ (tft /\ tft' /\ pc \notin {"idle", "done"}) =>
           /\ Stream' = IF PixelStep THEN Append(Stream, Converted) ELSE Stream
           /\ (nWritePixels' > nWritePixels) =>
                (destidx > 0 /\ Len(tftOut') = Len(tftOut) + destidx)
           /\ (~FailsCheck(hdr) /\ pc = "col") => Len(Stream) = row * loadWidth + col
      /\ DrewRegion' => (Len(tftOut') = RegionArea' /\ destidx' = 0) ]_vars

\* A decode of rows longer than one batch has returned with all its pixels
\* on the display.
C18_Witness ==
  /\ DrewRegion
  /\ loadWidth > DRAWPIXELS /\ loadHeight > 1
  /\ Len(tftOut) = loadWidth * loadHeight
  /\ nWritePixels > loadHeight

\* --------------------------------------------------------------------- C19
\* The memory decode asked for its canvas and did not get a pixel buffer.
AllocFailed == ~tft /\ canvasAlloc \in {"null", "nobuf"}

\* C19: in a memory decode the pixel buffer is allocated once, after the
\* header is accepted and before any pixel is converted; when the allocation
\* fails the call reads and seeks no pixel data, writes through no
\* destination pointer, closes the stream and returns OutOfMemory.
C19_AllocationFailure ==
  [][ /\ (canvasAlloc' # canvasAlloc /\ pc # "done") =>
           /\ canvasAlloc = "none" /\ pc = "alloc" /\ ~tft
           /\ ~FailsCheck(hdr) /\ fileOpen
           /\ nRead = 10 /\ pos = 34 /\ nSeek = 0 /\ destbuf = <<>>
      /\ (~tft /\ destbuf # <<>>) => canvasAlloc = "ok"
      /\ AllocFailed =>
           /\ nRead = 10 /\ pos = 34 /\ nSeek = 0
           /\ dest = "NULL" /\ destbuf = <<>>
           /\ canvas1 # "canvas" /\ fmt # "CANVAS_16"
           /\ status = "IMAGE_ERR_MALLOC"
           /\ pc \in {"check", "close", "done"}
           /\ pc # "done" => UNCHANGED <<outVars, destVars>>
      /\ (AllocFailed' /\ Returned') =>
           (ret' = "IMAGE_ERR_MALLOC" /\ ~fileOpen' /\ nClose' = 1) ]_vars

\* A memory decode of a non-empty image returned after its canvas came
\* without a pixel buffer.
C19_Witness ==
  /\ Returned /\ AllocFailed /\ canvasAlloc = "nobuf"
  /\ ImageWidth > 0 /\ ImageHeight > 0
  /\ ret = "IMAGE_ERR_MALLOC"

\* --------------------------------------------------------------------- C20
\* The decode returned success after computing its region.
DecodedRegion ==
  Returned /\ ret = "IMAGE_SUCCESS" /\ nOpen = 1 /\ ~FailsCheck(hdr)

InCall == pc \notin {"idle", "done"}

\* The number of pixels converted so far.
ConvertedCount == IF tft THEN Len(Stream) ELSE destidx

\* C20 as stated, in its final result: the loop has run loadHeight rows of
\* loadWidth pixels each and the stream is closed.
C20_LoopCoversProduct ==
  DecodedRegion => (ConvertedCount = loadHeight * loadWidth /\ ~fileOpen)

\* C20, amended: every decode call returns, with the stream not open; when
\* the clipped region is non-empty the scanline loop runs exactly loadHeight
\* rows of exactly loadWidth pixels each, and when it is empty (loadWidth <= 0
\* or loadHeight <= 0) it runs no row.
C20_Terminates ==
  /\ InCall ~> (Returned /\ ~fileOpen)
  /\ [](DecodedRegion =>
          IF loadWidth > 0 /\ loadHeight > 0
            THEN /\ row = loadHeight /\ col = loadWidth
                 /\ ConvertedCount = loadHeight * loadWidth
            ELSE /\ ConvertedCount = 0
                 /\ nSeek = 0 /\ nRead = 10)
  /\ []((Decoding /\ pc = "col") =>
          /\ 0 <= row /\ row < loadHeight
          /\ 0 <= col /\ col <= loadWidth
          /\ ConvertedCount = row * loadWidth + col)

\* A decode has run three rows of more than DRAWPIXELS pixels and returned.
C20_Witness ==
  /\ DecodedRegion /\ ~fileOpen
  /\ loadHeight = 3 /\ row = 3
  /\ loadWidth > DRAWPIXELS /\ col = loadWidth
  /\ ConvertedCount = 3 * loadWidth

=============================================================================
